---------------------------- MODULE Spec2Model ----------------------------
(***************************************************************************)
(* A model of msrx: the MSR605 command protocol (src/msrx/__init__.py) and  *)
(* the MSR605X USB HID framing adapter (src/msrx/msr605x.py).               *)
(*                                                                         *)
(* Bytes are integers 0..255, byte strings are sequences of bytes, and a   *)
(* USB HID packet is a sequence of 64 bytes.  Every method is one action   *)
(* that runs the whole method; a call that never returns (a blocking read  *)
(* with nothing to read) is an action that is not enabled.                 *)
(***************************************************************************)
EXTENDS Integers, Sequences, FiniteSets, TLC

VARIABLES
  usb_out,    \* packets handed to dev.ctrl_transfer by the last send_message
  usb_in,     \* packets the HID endpoint will return, oldest first
  buffer,     \* MSR605X.buffer
  last,       \* the last call: its name, its arguments and how it ended
  dev,        \* MSRX._dev: "usb" (the MSR605X adapter) or "serial" (a serial port)
  RAW,        \* the module's _RAW flag
  ser_in,     \* the bytes the serial port will return, oldest first
  tx          \* the byte strings the last MSRX call wrote to _dev, in order

vars == <<usb_out, usb_in, buffer, last, dev, RAW, ser_in, tx>>

\* The command protocol's part of the state, and its value where no MSRX object
\* is used.
protoVars == <<dev, RAW, ser_in, tx>>
NoProto == dev = "usb" /\ RAW = FALSE /\ ser_in = <<>> /\ tx = <<>>

(***************************************************************************)
(* Bounds of the model.                                                    *)
(***************************************************************************)
MaxLen == 190        \* messages handed to send_message have 0..MaxLen bytes
MaxSeed == 1         \* contents of a message: one byte pattern per seed
MaxHdrLen == 65      \* _make_header is called with lengths -2..MaxHdrLen
MaxDevLen == 2       \* the device's short messages have 0..MaxDevLen bytes
LongDevLen == 64     \* the device's long message: more than one packet
MaxDevMsgs == 2      \* messages the device sends in one run
MaxCount == 3        \* MSR605X.read is called with counts 0..MaxCount
MaxCalls == 2        \* MSRX calls made in one run
MaxCut == 1          \* a reply is cut into two USB messages after 1..MaxCut bytes

(***************************************************************************)
(* Bytes and bit operations on Python's non-negative integers.             *)
(***************************************************************************)
RECURSIVE BitAnd(_, _)
BitAnd(a, b) ==
  IF a = 0 \/ b = 0 THEN 0
  ELSE (a % 2) * (b % 2) + 2 * BitAnd(a \div 2, b \div 2)

RECURSIVE BitOr(_, _)
BitOr(a, b) ==
  IF a = 0 THEN b
  ELSE IF b = 0 THEN a
  ELSE (IF a % 2 = 1 \/ b % 2 = 1 THEN 1 ELSE 0) + 2 * BitOr(a \div 2, b \div 2)

Min(a, b) == IF a < b THEN a ELSE b

\* Python's s[i:j] for 0 <= i, 0 <= j (0-based, j exclusive, clipped to len(s)).
Slice(s, i, j) == SubSeq(s, i + 1, Min(j, Len(s)))

\* b"\0" * n
Zeros(n) == [i \in 1..n |-> 0]

(***************************************************************************)
(* msr605x.py: the header bits.                                            *)
(***************************************************************************)
SEQUENCE_START_BIT == 128
SEQUENCE_END_BIT == 64
SEQUENCE_LENGTH_BITS == 63
PACKET_SIZE == 64
CHUNK_SIZE == 63
ESC == 27

NoVal == <<>>

\* A mutant of make_header: the end bit is or-ed in at the start bit's place.
make_header_swapped(start_of_sequence, end_of_sequence, length) ==
  IF length < 0 \/ length > 63
  THEN [exc |-> "ValueError", val |-> NoVal]
  ELSE LET h0 == length
           h1 == IF start_of_sequence THEN BitOr(h0, SEQUENCE_START_BIT) ELSE h0
           h2 == IF end_of_sequence THEN BitOr(h1, SEQUENCE_START_BIT) ELSE h1
       IN  [exc |-> "none", val |-> <<h2>>]

\* MSR605X._make_header: the header byte, or ValueError.
make_header(start_of_sequence, end_of_sequence, length) ==
  IF length < 0 \/ length > 63
  THEN [exc |-> "ValueError", val |-> NoVal]
  ELSE LET h0 == length
           h1 == IF start_of_sequence THEN BitOr(h0, SEQUENCE_START_BIT) ELSE h0
           h2 == IF end_of_sequence THEN BitOr(h1, SEQUENCE_END_BIT) ELSE h1
       IN  [exc |-> "none", val |-> <<h2>>]

\* A mutant of encapsulate_from: the padding is one byte too long.
RECURSIVE encapsulate_from_longpad(_, _)
encapsulate_from_longpad(message, idx) ==
  IF idx < Len(message)
  THEN LET payload == Slice(message, idx, idx + CHUNK_SIZE)
           header == make_header(idx = 0, Len(message) - idx < PACKET_SIZE,
                                 Len(payload)).val
           padding == Zeros(PACKET_SIZE - Len(payload))
       IN  <<header \o payload \o padding>>
             \o encapsulate_from_longpad(message, idx + CHUNK_SIZE)
  ELSE <<>>

\* A mutant of encapsulate_from: the end of the sequence is tested against the
\* chunk size, so a last chunk of exactly 63 bytes is not marked as the end.
RECURSIVE encapsulate_from_endoff(_, _)
encapsulate_from_endoff(message, idx) ==
  IF idx < Len(message)
  THEN LET payload == Slice(message, idx, idx + CHUNK_SIZE)
           header == make_header(idx = 0, Len(message) - idx < CHUNK_SIZE,
                                 Len(payload)).val
           padding == Zeros(CHUNK_SIZE - Len(payload))
       IN  <<header \o payload \o padding>>
             \o encapsulate_from_endoff(message, idx + CHUNK_SIZE)
  ELSE <<>>

\* MSR605X._encapsulate_message: the packets the generator yields from idx on.
RECURSIVE encapsulate_from(_, _)
encapsulate_from(message, idx) ==
  IF idx < Len(message)
  THEN LET payload == Slice(message, idx, idx + CHUNK_SIZE)
           header == make_header(idx = 0, Len(message) - idx < PACKET_SIZE,
                                 Len(payload)).val
           padding == Zeros(CHUNK_SIZE - Len(payload))
       IN  <<header \o payload \o padding>>
             \o encapsulate_from(message, idx + CHUNK_SIZE)
  ELSE <<>>

encapsulate_message(message) == encapsulate_from(message, 0)

(***************************************************************************)
(* msr605x.py: recv_message over the packets the endpoint returns.         *)
(* timeout = 0 is libusb's "no timeout": with no packet to read the call   *)
(* does not return ("blocked").  With a timeout, _recv_packet returns None *)
(* when no packet is there (errno 110).                                    *)
(***************************************************************************)
RECURSIVE recv_loop(_, _, _)
recv_loop(s, timeout, message) ==
  IF s = <<>>
  THEN IF timeout = 0
       THEN [kind |-> "blocked", val |-> NoVal, rest |-> s]
       ELSE IF message = <<>>
            THEN [kind |-> "None", val |-> NoVal, rest |-> s]
            \* packet is None and message is not empty: packet[0] raises
            ELSE [kind |-> "TypeError", val |-> NoVal, rest |-> s]
  ELSE LET packet == Head(s)
           payload_length == BitAnd(packet[1], SEQUENCE_LENGTH_BITS)
           payload == Slice(packet, 1, 1 + payload_length)
       IN  IF BitAnd(packet[1], SEQUENCE_END_BIT) # 0
           THEN [kind |-> "value", val |-> payload, rest |-> Tail(s)]
           ELSE recv_loop(Tail(s), timeout, message \o payload)

recv_message(s, timeout) == recv_loop(s, timeout, <<>>)

(***************************************************************************)
(* The messages of the model: every length 0..MaxLen, the bytes following  *)
(* a pattern that depends on the seed and visits all byte values.          *)
(***************************************************************************)
Msg(len, seed) == [i \in 1..len |-> (37 * seed + 7 * i) % 256]

Messages == {Msg(len, seed) : len \in 0..MaxLen, seed \in 0..MaxSeed}

NoCall == [op |-> "none", done |-> FALSE, msg |-> <<>>, start |-> FALSE,
           end |-> FALSE, length |-> 0, exc |-> "none", ret |-> NoVal]

(***************************************************************************)
(* The framing functions on their own: the call and its arguments are      *)
(* drawn at the start, and the action makes the call.                      *)
(***************************************************************************)
FragCalls ==
  {[NoCall EXCEPT !.op = "send_message", !.msg = m] : m \in Messages}
  \cup {[NoCall EXCEPT !.op = "make_header", !.start = s, !.end = e, !.length = n] :
          s \in BOOLEAN, e \in BOOLEAN, n \in (0 - 2)..MaxHdrLen}

InitFrag ==
  /\ usb_out = <<>>
  /\ usb_in = <<>>
  /\ buffer = <<>>
  /\ last \in FragCalls
  /\ NoProto

\* MSR605X.send_message(message): every packet of the message is sent.
SendMessage ==
  /\ last.op = "send_message" /\ ~last.done
  /\ usb_out' = encapsulate_message(last.msg)
  /\ last' = [last EXCEPT !.done = TRUE]
  /\ UNCHANGED <<usb_in, buffer, protoVars>>

\* MSR605X._make_header called on its own.
MakeHeader ==
  /\ last.op = "make_header" /\ ~last.done
  /\ LET r == make_header(last.start, last.end, last.length)
     IN  last' = [last EXCEPT !.done = TRUE, !.exc = r.exc, !.ret = r.val]
  /\ UNCHANGED <<usb_out, usb_in, buffer, protoVars>>

NextFrag == SendMessage \/ MakeHeader

SpecFrag == InitFrag /\ [][NextFrag]_vars

(***************************************************************************)
(* msr605x.py: the byte-stream interface, read / write / flush.            *)
(***************************************************************************)
\* MSR605X.read(count), lines 169-175: what is returned and what stays
\* buffered once the buffer holds buf and the endpoint's packets are rest.
read_buffer(buf, count, rest) ==
  IF count = 0
  THEN [kind |-> "return", ret |-> buf, buffer |-> <<>>, rest |-> rest]
  ELSE [kind |-> "return", ret |-> Slice(buf, 0, count),
        buffer |-> Slice(buf, count, Len(buf)), rest |-> rest]

\* MSR605X.read(count), lines 166-168: r is how recv_message ended.
read_received(buf, count, r) ==
  IF r.kind \in {"blocked", "TypeError"}
  THEN [kind |-> r.kind, ret |-> NoVal, buffer |-> buf, rest |-> r.rest]
  ELSE read_buffer(IF r.kind = "value" THEN buf \o r.val ELSE buf, count, r.rest)

\* MSR605X.read(count) on a buffer and the endpoint's packets: how the call
\* ends, what it returns, and the buffer and the packets it leaves.
usb_read(buf, s, count) ==
  read_received(buf, count,
    IF count > Len(buf) \/ count = 0
    THEN recv_message(s, IF count = 0 THEN 100 ELSE 0)
    ELSE [kind |-> "skipped", val |-> NoVal, rest |-> s])

(***************************************************************************)
(* The device's side of the USB transport: it frames each of its messages  *)
(* the way the README describes, and pads a packet to 64 bytes with        *)
(* whatever it has (a pad byte that carries no meaning).                   *)
(***************************************************************************)
RECURSIVE device_packets_from(_, _, _)
device_packets_from(message, idx, pad) ==
  LET payload == Slice(message, idx, idx + CHUNK_SIZE)
      last_one == Len(message) - idx <= CHUNK_SIZE
      header == Len(payload)
                  + (IF idx = 0 THEN SEQUENCE_START_BIT ELSE 0)
                  + (IF last_one THEN SEQUENCE_END_BIT ELSE 0)
      packet == <<header>> \o payload
                  \o [i \in 1..(CHUNK_SIZE - Len(payload)) |-> pad]
  IN  IF last_one THEN <<packet>>
      ELSE <<packet>> \o device_packets_from(message, idx + CHUNK_SIZE, pad)

device_packets(message, pad) == device_packets_from(message, 0, pad)

DevMsgs == {Msg(len, 1) : len \in (0..MaxDevLen) \cup {LongDevLen}}

PadBytes == {0, 238}

\* The packets of up to n device messages, one after the other.
RECURSIVE DevStreams(_)
DevStreams(n) ==
  IF n = 0 THEN {<<>>}
  ELSE LET shorter == DevStreams(n - 1)
       IN  shorter \cup {device_packets(m, pad) \o s :
                           m \in DevMsgs, pad \in PadBytes, s \in shorter}

\* What the endpoint holds: whole messages, or whole messages of which the last
\* packet has not arrived (the device stopped in the middle of a message).
UsbInputs ==
  LET whole == DevStreams(MaxDevMsgs)
  IN  whole \cup {SubSeq(s, 1, Len(s) - 1) : s \in whole \ {<<>>}}

UsbNoCall == [op |-> "none", count |-> 0, msg |-> <<>>, pre_buffer |-> <<>>,
              pre_in |-> <<>>, exc |-> "none", ret |-> NoVal,
              timeout |-> 0, none |-> FALSE]

InitUsb ==
  /\ usb_out = <<>>
  /\ usb_in \in UsbInputs
  /\ buffer = <<>>
  /\ last = UsbNoCall
  /\ NoProto

\* MSR605X.read(count)
UsbRead(count) ==
  LET r == usb_read(buffer, usb_in, count)
  IN  /\ r.kind # "blocked"
      /\ buffer' = r.buffer
      /\ usb_in' = r.rest
      /\ last' = [UsbNoCall EXCEPT !.op = "read", !.count = count,
                    !.pre_buffer = buffer, !.pre_in = usb_in,
                    !.exc = (IF r.kind = "return" THEN "none" ELSE r.kind),
                    !.ret = r.ret]
      /\ UNCHANGED <<usb_out, protoVars>>

\* MSR605X.write(d)
UsbWrite(d) ==
  /\ usb_out' = encapsulate_message(d)
  /\ last' = [UsbNoCall EXCEPT !.op = "write", !.msg = d,
                !.pre_buffer = buffer, !.pre_in = usb_in]
  /\ UNCHANGED <<usb_in, buffer, protoVars>>

\* MSR605X.flush()
UsbFlush ==
  /\ buffer' = <<>>
  /\ last' = [UsbNoCall EXCEPT !.op = "flush", !.pre_buffer = buffer,
                !.pre_in = usb_in]
  /\ UNCHANGED <<usb_in, usb_out, protoVars>>

\* MSR605X.recv_message(timeout): `none` tells a returned None from a
\* returned byte string.
UsbRecvMessage(timeout) ==
  LET r == recv_message(usb_in, timeout)
  IN  /\ r.kind # "blocked"
      /\ usb_in' = r.rest
      /\ last' = [UsbNoCall EXCEPT !.op = "recv_message", !.timeout = timeout,
                    !.pre_buffer = buffer, !.pre_in = usb_in,
                    !.exc = (IF r.kind = "TypeError" THEN "TypeError" ELSE "none"),
                    !.none = (r.kind = "None"), !.ret = r.val]
      /\ UNCHANGED <<usb_out, buffer, protoVars>>

\* The commands written in the adapter's runs: reset, ESC 'a'.
UsbCommands == {<<ESC, 97>>}

\* The timeouts recv_message is called with: none (0), read(0)'s 100 ms and
\* MSRX.raw's 2500 ms.
UsbTimeouts == {0, 100, 2500}

NextUsb ==
  \/ \E count \in 0..MaxCount : UsbRead(count)
  \/ \E d \in UsbCommands : UsbWrite(d)
  \/ UsbFlush
  \/ \E timeout \in UsbTimeouts : UsbRecvMessage(timeout)

SpecUsb == InitUsb /\ [][NextUsb]_vars

(***************************************************************************)
(* Claims about the framing functions, under SpecFrag.                     *)
(***************************************************************************)
Sent == last.op = "send_message" /\ last.done

HeaderOf(packet) == packet[1]
StartBit(packet) == BitAnd(HeaderOf(packet), SEQUENCE_START_BIT) # 0
EndBit(packet) == BitAnd(HeaderOf(packet), SEQUENCE_END_BIT) # 0
PayloadLength(packet) == BitAnd(HeaderOf(packet), SEQUENCE_LENGTH_BITS)

Ceil63(n) == (n + 62) \div 63

RECURSIVE SumPayloadLengths(_)
SumPayloadLengths(ps) ==
  IF ps = <<>> THEN 0 ELSE PayloadLength(Head(ps)) + SumPayloadLengths(Tail(ps))

\* C1: feeding the packets send_message produced for a message, in order, to
\* recv_message returns that message: the payloads of all the packets up to
\* the one with the end bit, concatenated.  Stated for the messages of at least
\* one byte (lengths 1, 63, 64, 126 and 189 among them), for which
\* send_message sends at least one packet.
C1_RoundTrip ==
  (Sent /\ Len(last.msg) >= 1) =>
    LET r == recv_message(usb_out, 0)
    IN  r.kind = "value" /\ r.val = last.msg

C3_Flags ==
  (Sent /\ Len(last.msg) >= 1) =>
    LET L == Len(last.msg)
        n == Len(usb_out)
    IN  /\ n >= 1
        /\ \A i \in 1..n :
             /\ StartBit(usb_out[i]) <=> (i = 1)
             /\ EndBit(usb_out[i]) <=> (i = n)
             /\ PayloadLength(usb_out[i]) = Min(63, L - 63 * (i - 1))
             /\ PayloadLength(usb_out[i]) <= 63
             /\ Slice(usb_out[i], 1, 1 + PayloadLength(usb_out[i]))
                  = Slice(last.msg, 63 * (i - 1), 63 * i)
        /\ SumPayloadLengths(usb_out) = L

C3_Witness ==
  /\ Sent /\ Len(last.msg) = 126 /\ Len(usb_out) = 2
  /\ StartBit(usb_out[1]) /\ ~EndBit(usb_out[1])
  /\ ~StartBit(usb_out[2]) /\ EndBit(usb_out[2])

\* C4: for a length in 0..63 the header byte has bit 7 = start, bit 6 = end and
\* bits 5..0 = length, so that masking gives the three fields back (0xC6, 0xBF
\* and 0x3F are the bytes of the documented examples); any other length ends in
\* ValueError and gives no header byte.
C4_Header ==
  (last.op = "make_header" /\ last.done) =>
    IF last.length \in 0..63
    THEN /\ last.exc = "none"
         /\ Len(last.ret) = 1
         /\ LET h == last.ret[1]
            IN  /\ h \in 0..255
                /\ (h \div 128 = 1) <=> last.start
                /\ ((h \div 64) % 2 = 1) <=> last.end
                /\ h % 64 = last.length
                /\ (BitAnd(h, SEQUENCE_START_BIT) # 0) <=> last.start
                /\ (BitAnd(h, SEQUENCE_END_BIT) # 0) <=> last.end
                /\ BitAnd(h, SEQUENCE_LENGTH_BITS) = last.length
                /\ (last.start /\ last.end /\ last.length = 6) => h = 198
                /\ (last.start /\ ~last.end /\ last.length = 63) => h = 191
                /\ (~last.start /\ ~last.end /\ last.length = 63) => h = 63
    ELSE last.exc = "ValueError" /\ last.ret = NoVal

C4_Witness ==
  /\ last.op = "make_header" /\ last.done
  /\ last.start /\ last.end /\ last.length = 6 /\ last.ret = <<198>>

(***************************************************************************)
(* Claims about the adapter's read, under SpecUsb.                         *)
(***************************************************************************)
\* Whether a packet with the end bit is among the packets.
HasEnd(ps) == \E i \in 1..Len(ps) : EndBit(ps[i])

\* The message the packets carry: the payloads, in order, up to and including
\* the first packet with the end bit.
RECURSIVE FirstMessage(_)
FirstMessage(ps) ==
  IF ps = <<>> THEN <<>>
  ELSE LET payload == Slice(Head(ps), 1, 1 + PayloadLength(Head(ps)))
       IN  IF EndBit(Head(ps)) THEN payload
           ELSE payload \o FirstMessage(Tail(ps))

\* The packets that follow the first packet with the end bit.
RECURSIVE AfterFirstMessage(_)
AfterFirstMessage(ps) ==
  IF ps = <<>> THEN <<>>
  ELSE IF EndBit(Head(ps)) THEN Tail(ps) ELSE AfterFirstMessage(Tail(ps))

ReadDone == last.op = "read"

\* C5: read(n) with n > 0 returns exactly n bytes, never fewer: the first n of
\* the bytes buffered and received, the others staying buffered in order.
C5_ReadExactly ==
  (ReadDone /\ last.count > 0 /\ last.exc = "none") =>
    /\ Len(last.ret) = last.count
    /\ \E received \in {<<>>, FirstMessage(last.pre_in)} :
         last.ret \o buffer = last.pre_buffer \o received

\* C6: read(0) makes one receive attempt and returns the bytes buffered before
\* the call followed by the message received, if any, leaving the buffer empty;
\* with nothing to receive it returns the buffered bytes and does not raise.
C6_ReadZero ==
  (ReadDone /\ last.count = 0 /\ (last.pre_in = <<>> \/ HasEnd(last.pre_in))) =>
    /\ last.exc = "none"
    /\ last.ret = last.pre_buffer \o FirstMessage(last.pre_in)
    /\ buffer = <<>>
    /\ usb_in = AfterFirstMessage(last.pre_in)

\* C15: a packet read that times out in recv_message before a packet with the
\* end bit has been seen ends the receive with a value, incomplete or absent
\* data, and with no exception; when the very first read times out the value
\* is None, nothing received.
C15_TimeoutSurfaces ==
  (last.op = "recv_message" /\ last.timeout > 0 /\ ~HasEnd(last.pre_in)) =>
    /\ last.exc = "none"
    /\ last.pre_in = <<>> => (last.none /\ usb_in = <<>>)

(***************************************************************************)
(* __init__.py: the command protocol, MSRX, over its device _dev.          *)
(***************************************************************************)
FS == 28
QUESTION == 63
PERCENT == 37
SEMICOLON == 59
STATUS_OK == 48
TRACK_CNT == 3

\* DeviceError's codes, and MSRX._DEV_ERR: b'1', b'2', b'4', b'9', b'A'.
DEV_ERR ==
  [status \in {<<49>>, <<50>>, <<52>>, <<57>>, <<65>>} |->
     CASE status = <<49>> -> "read_write"
       [] status = <<50>> -> "command"
       [] status = <<52>> -> "command"
       [] status = <<57>> -> "swipe"
       [] status = <<65>> -> "erase"]

\* binascii.hexlify(d).decode("utf-8"): two lower-case hex digits for a byte.
HexDigit(n) == IF n < 10 THEN 48 + n ELSE 87 + n

RECURSIVE hexlify(_)
hexlify(d) ==
  IF d = <<>> THEN <<>>
  ELSE <<HexDigit(Head(d) \div 16), HexDigit(Head(d) % 16)>> \o hexlify(Tail(d))

\* The device as the protocol sees it: the adapter's buffer and packets, the
\* serial port's bytes, and what the call has written so far.
DevState == [buffer |-> buffer, usb_in |-> usb_in, ser_in |-> ser_in,
             tx |-> <<>>, usb_out |-> <<>>]

\* _dev.read(n) on the adapter: r is how MSR605X.read ended.
usb_read_result(d, r) ==
  [kind |-> r.kind, ret |-> r.ret,
   d |-> [d EXCEPT !.buffer = r.buffer, !.usb_in = r.rest]]

\* _dev.read(n), n >= 1.  A serial port opened without a timeout returns n
\* bytes or does not return; the adapter is MSR605X.read.
dev_read(k, d, n) ==
  IF k = "serial"
  THEN IF Len(d.ser_in) >= n
       THEN [kind |-> "return", ret |-> SubSeq(d.ser_in, 1, n),
             d |-> [d EXCEPT !.ser_in = SubSeq(d.ser_in, n + 1, Len(d.ser_in))]]
       ELSE [kind |-> "blocked", ret |-> NoVal, d |-> d]
  ELSE usb_read_result(d, usb_read(d.buffer, d.usb_in, n))

\* A mutant of send: the adapter is not flushed after the write.
send_noflush(k, d, bytes) ==
  IF k = "serial"
  THEN [d EXCEPT !.tx = Append(@, bytes)]
  ELSE [d EXCEPT !.tx = Append(@, bytes),
                 !.usb_out = @ \o encapsulate_message(bytes)]

\* MSRX._send(d): _dev.write(d), then _dev.flush().  The adapter's flush
\* empties its receive buffer; a serial port's flush waits for the output.
send(k, d, bytes) ==
  IF k = "serial"
  THEN [d EXCEPT !.tx = Append(@, bytes)]
  ELSE [d EXCEPT !.tx = Append(@, bytes),
                 !.usb_out = @ \o encapsulate_message(bytes),
                 !.buffer = <<>>]

NoTracks == [i \in 1..TRACK_CNT |-> <<>>]

\* How a call ends: "ok" (it returned), an exception, or "blocked" (it never
\* returns); the exception's message; the tracks read() has collected (what it
\* returns when it ends "ok"); the device afterwards.
Res(kind, what, a, b, tracks, d) ==
  [kind |-> kind, what |-> what, a |-> a, b |-> b, tracks |-> tracks, d |-> d]

Blocked(tracks, d) == Res("blocked", "", <<>>, <<>>, tracks, d)

\* MSRX._expect(d), lines 162-166: r is how _dev.read(len(d)) ended.
expect_read(bytes, r) ==
  IF r.kind = "blocked" THEN Blocked(NoTracks, r.d)
  ELSE IF r.ret # bytes
       THEN Res("ProtocolError", "expected", hexlify(bytes), hexlify(r.ret),
                NoTracks, r.d)
       ELSE Res("ok", "", <<>>, <<>>, NoTracks, r.d)

\* MSRX._expect(d)
expect(k, d, bytes) == expect_read(bytes, dev_read(k, d, Len(bytes)))

\* A mutant of status_read: b'4' is not looked up in _DEV_ERR.
status_read_no4(r) ==
  IF r.kind = "blocked" THEN Blocked(NoTracks, r.d)
  ELSE IF r.ret = <<STATUS_OK>>
       THEN Res("ok", "", <<>>, <<>>, NoTracks, r.d)
       ELSE IF r.ret \in DOMAIN DEV_ERR /\ r.ret # <<52>>
            THEN Res("DeviceError", DEV_ERR[r.ret], <<>>, <<>>, NoTracks, r.d)
            ELSE Res("ProtocolError", "invalid status", hexlify(r.ret), <<>>,
                     NoTracks, r.d)

\* MSRX._handle_status(), lines 267-275: r is how status = _dev.read(1) ended.
status_read(r) ==
  IF r.kind = "blocked" THEN Blocked(NoTracks, r.d)
  ELSE IF r.ret = <<STATUS_OK>>
       THEN Res("ok", "", <<>>, <<>>, NoTracks, r.d)
       ELSE IF r.ret \in DOMAIN DEV_ERR
            THEN Res("DeviceError", DEV_ERR[r.ret], <<>>, <<>>, NoTracks, r.d)
            ELSE Res("ProtocolError", "invalid status", hexlify(r.ret), <<>>,
                     NoTracks, r.d)

\* MSRX._handle_status(), from line 267 on: e is how _expect(b'\x1b') ended.
status_expected(k, e) ==
  IF e.kind # "ok" THEN e ELSE status_read(dev_read(k, e.d, 1))

\* MSRX._handle_status()
handle_status(k, d) == status_expected(k, expect(k, d, <<ESC>>))

\* tracks[t] for a Python index t: a negative index counts from the end.
PyIndex(t) == IF t < 0 THEN t + TRACK_CNT + 1 ELSE t + 1

WithTracks(r, tracks) == [r EXCEPT !.tracks = tracks]

\* A mutant of read_end: the status is not read.
read_end_nostatus(k, tracks, e) ==
  IF e.kind # "ok" THEN WithTracks(e, tracks)
  ELSE Res("ok", "", <<>>, <<>>, tracks, e.d)

\* MSRX.read(), lines 209-211: e is how _expect(b'\x1c') ended.
read_end(k, tracks, e) ==
  IF e.kind # "ok" THEN WithTracks(e, tracks)
  ELSE WithTracks(handle_status(k, e.d), tracks)

\* MSRX.read(): its two nested loops.  in_track tells the inner loop (lines
\* 220-236, reading the bytes of tracks[t]) from the outer loop (lines 205-216,
\* awaiting a track's start or the end of the reply).
RECURSIVE read_loop(_, _, _, _, _)

\* The byte read after an escape byte (lines 214 and 224): r is how that read
\* ended.  The inner loop drops it and ends the track; in the outer loop
\* ord(d) <= _TRACK_CNT starts a track, and ord(b'') raises TypeError.
read_escaped(k, tracks, in_track, r) ==
  IF r.kind = "blocked" THEN Blocked(tracks, r.d)
  ELSE IF in_track THEN read_loop(k, r.d, tracks, FALSE, 0)
  ELSE IF r.ret = <<>> THEN Res("TypeError", "ord", <<>>, <<>>, tracks, r.d)
  ELSE IF r.ret[1] <= TRACK_CNT THEN read_loop(k, r.d, tracks, TRUE, r.ret[1] - 1)
  ELSE read_loop(k, r.d, tracks, FALSE, 0)

\* A mutant of read_byte: the padding bytes '%' and ';' are stored like data.
read_byte_keeps_padding(k, tracks, in_track, t, r) ==
  IF r.kind = "blocked" THEN Blocked(tracks, r.d)
  ELSE IF r.ret = <<ESC>>
       THEN read_escaped(k, tracks, in_track, dev_read(k, r.d, 1))
  ELSE IF in_track
       THEN IF r.ret = <<QUESTION>>
            THEN read_loop(k, r.d, tracks, FALSE, 0)
            ELSE read_loop(k, r.d, [tracks EXCEPT ![PyIndex(t)] = @ \o r.ret],
                           TRUE, t)
  ELSE IF r.ret = <<QUESTION>>
       THEN read_end(k, tracks, expect(k, r.d, <<FS>>))
  ELSE read_loop(k, r.d, tracks, FALSE, 0)

\* One turn of a loop: r is how d = _dev.read(1) ended (lines 206 and 221).
read_byte(k, tracks, in_track, t, r) ==
  IF r.kind = "blocked" THEN Blocked(tracks, r.d)
  ELSE IF r.ret = <<ESC>>
       THEN read_escaped(k, tracks, in_track, dev_read(k, r.d, 1))
  ELSE IF in_track
       THEN IF r.ret = <<PERCENT>> \/ r.ret = <<SEMICOLON>>
            THEN read_loop(k, r.d, tracks, TRUE, t)
            ELSE IF r.ret = <<QUESTION>>
            THEN read_loop(k, r.d, tracks, FALSE, 0)
            ELSE read_loop(k, r.d, [tracks EXCEPT ![PyIndex(t)] = @ \o r.ret],
                           TRUE, t)
  ELSE IF r.ret = <<QUESTION>>
       THEN read_end(k, tracks, expect(k, r.d, <<FS>>))
  ELSE read_loop(k, r.d, tracks, FALSE, 0)

read_loop(k, d, tracks, in_track, t) ==
  read_byte(k, tracks, in_track, t, dev_read(k, d, 1))

\* MSRX.read(), from line 203 on: e is how _expect(b'\x1bs') ended.
read_started(k, e) ==
  IF e.kind # "ok" THEN e ELSE read_loop(k, e.d, NoTracks, FALSE, 0)

\* MSRX.read()
read(k, d, raw) ==
  read_started(k, expect(k, send(k, d, IF raw THEN <<ESC, 109>> ELSE <<ESC, 114>>),
                         <<ESC, 115>>))

\* A mutant of write_tracks: nothing is sent for an empty track.
RECURSIVE write_tracks_skipping(_, _, _, _, _)
write_tracks_skipping(k, d, raw, tracks, i) ==
  IF i >= TRACK_CNT \/ i >= Len(tracks) THEN d
  ELSE IF tracks[i + 1] = <<>> THEN write_tracks_skipping(k, d, raw, tracks, i + 1)
  ELSE write_tracks_skipping(k,
         send(k, d, IF raw THEN <<ESC, i + 1, Len(tracks[i + 1])>> \o tracks[i + 1]
                    ELSE <<ESC, i + 1>> \o tracks[i + 1]),
         raw, tracks, i + 1)

\* MSRX.write(tracks): the loop over zip(tracks, range(_TRACK_CNT)) from i on.
RECURSIVE write_tracks(_, _, _, _, _)
write_tracks(k, d, raw, tracks, i) ==
  IF i >= TRACK_CNT \/ i >= Len(tracks) THEN d
  ELSE write_tracks(k,
         send(k, d, IF raw THEN <<ESC, i + 1, Len(tracks[i + 1])>> \o tracks[i + 1]
                    ELSE <<ESC, i + 1>> \o tracks[i + 1]),
         raw, tracks, i + 1)

\* MSRX.write(tracks)
write(k, d, raw, tracks) ==
  handle_status(k,
    send(k,
      write_tracks(k,
        send(k, d, IF raw THEN <<ESC, 110, ESC, 115>> ELSE <<ESC, 119, ESC, 115>>),
        raw, tracks, 0),
      <<QUESTION, FS>>))

\* MSRX.erase(tracks)
erase(k, d, tracks) ==
  handle_status(k,
    send(k, d, <<ESC, 99,
                 BitOr(BitOr(IF tracks[1] THEN 1 ELSE 0, IF tracks[2] THEN 2 ELSE 0),
                       IF tracks[3] THEN 4 ELSE 0)>>))

\* MSRX.reset(), hico() and loco(): one command, no reply read.
command(k, d, letter) == Res("ok", "", <<>>, <<>>, NoTracks, send(k, d, <<ESC, letter>>))

(***************************************************************************)
(* The device's replies.  A framed reply to a read command is ESC 's', one *)
(* block per track, then '?' FS ESC status.  A track's block is ESC k,     *)
(* optional padding ('%' or ';'), the data and '?'; an empty track is      *)
(* ESC k ESC '+', or ESC k, the padding and '?'.                           *)
(***************************************************************************)
TrackData == {<<>>, <<65, 66, 67>>, <<88, 89>>}

Pads == {"none", "iso", "percent", "semicolon"}

EmptyForms == {"escape", "terminator"}

Pad(pad, k) ==
  CASE pad = "none" -> <<>>
    [] pad = "iso" -> IF k = 1 THEN <<PERCENT>> ELSE <<SEMICOLON>>
    [] pad = "percent" -> <<PERCENT>>
    [] pad = "semicolon" -> <<SEMICOLON>>

Block(k, data, pad, form) ==
  IF data = <<>> /\ form = "escape"
  THEN <<ESC, k, ESC, 43>>
  ELSE <<ESC, k>> \o Pad(pad, k) \o data \o <<QUESTION>>

Framed(t, pad, form, status) ==
  <<ESC, 115>> \o Block(1, t[1], pad, form) \o Block(2, t[2], pad, form)
    \o Block(3, t[3], pad, form) \o <<QUESTION, FS, ESC, status>>

TrackTriples == [1..TRACK_CNT -> TrackData]

FramedReplies ==
  {Framed(t, pad, form, STATUS_OK) : t \in TrackTriples, pad \in Pads,
                                     form \in EmptyForms}

\* The reply to an erase or a write: two bytes, the second a status byte of
\* _DEV_ERR, b'0', or a byte next to one of these.
StatusBytes == {0, 27, 47, 48, 49, 50, 51, 52, 53, 56, 57, 58, 64, 65, 66, 97, 255}

StatusReplies == {<<b1, b2>> : b1 \in {ESC, STATUS_OK}, b2 \in StatusBytes}

\* The bytes a device that does not keep to the framing may put in a reply.
JunkBytes == {0, 4, 90}

Insert(s, p, b) == SubSeq(s, 1, p) \o <<b>> \o SubSeq(s, p + 1, Len(s))

\* Framed replies with one byte too many somewhere after ESC 's', or with a
\* status that reports a failure.
OddReplies ==
  LET base == Framed(<<<<65, 66, 67>>, <<>>, <<88, 89>>>>, "iso", "escape", STATUS_OK)
  IN  {Insert(base, p, b) : p \in 2..Len(base), b \in JunkBytes \cup {ESC}}
      \cup {Framed(<<<<65, 66, 67>>, <<>>, <<88, 89>>>>, "iso", "terminator", st) :
              st \in {49, 50, 52, 57, 65, 66}}

\* Replies with one track, whose number is 0..4: ESC 's' ESC n 'H' 'I' '?'
\* '?' FS ESC '0'.
SelectorReplies ==
  {<<ESC, 115, ESC, n, 72, 73, QUESTION, QUESTION, FS, ESC, STATUS_OK>> : n \in 0..4}

Replies ==
  FramedReplies \cup StatusReplies \cup OddReplies \cup SelectorReplies \cup {<<>>}

\* How the device cuts a reply into USB messages: one message, or one message
\* for the first p bytes and one for the others, or an empty message first.
UsbDeliveries(reply) ==
  {device_packets(reply, 0)}
  \cup {device_packets(SubSeq(reply, 1, p), 0)
          \o device_packets(SubSeq(reply, p + 1, Len(reply)), 0) :
            p \in {q \in 1..MaxCut : q < Len(reply)}}
  \cup {device_packets(<<>>, 0) \o device_packets(reply, 0)}

ProtoNoCall == [op |-> "none", calls |-> 0, arg |-> <<>>, kind |-> "ok", what |-> "",
                a |-> <<>>, b |-> <<>>, tracks |-> NoTracks,
                pre_ser |-> <<>>, pre_usb |-> <<>>]

InitProto ==
  /\ dev \in {"serial", "usb"}
  /\ RAW \in BOOLEAN
  /\ \E reply \in Replies :
       IF dev = "serial"
       THEN ser_in = reply /\ usb_in = <<>>
       ELSE ser_in = <<>> /\ usb_in \in UsbDeliveries(reply)
  /\ buffer = <<>>
  /\ usb_out = <<>>
  /\ tx = <<>>
  /\ last = ProtoNoCall

\* A call of an MSRX method that ended as r says: it returned or raised.  A
\* call that would never return is not made.
Called(op, arg, r) ==
  /\ r.kind # "blocked"
  /\ last.calls < MaxCalls
  /\ buffer' = r.d.buffer
  /\ usb_in' = r.d.usb_in
  /\ ser_in' = r.d.ser_in
  /\ tx' = r.d.tx
  /\ usb_out' = r.d.usb_out
  /\ last' = [op |-> op, calls |-> last.calls + 1, arg |-> arg, kind |-> r.kind, what |-> r.what,
              a |-> r.a, b |-> r.b, tracks |-> r.tracks,
              pre_ser |-> ser_in, pre_usb |-> usb_in]
  /\ UNCHANGED <<dev, RAW>>

Read == Called("read", <<>>, read(dev, DevState, RAW))

Write(tracks) == Called("write", tracks, write(dev, DevState, RAW, tracks))

Erase(tracks) == Called("erase", tracks, erase(dev, DevState, tracks))

Reset == Called("reset", <<>>, command(dev, DevState, 97))

Hico == Called("hico", <<>>, command(dev, DevState, 120))

Loco == Called("loco", <<>>, command(dev, DevState, 121))

\* The tracks handed to write(): data, or the empty string to preserve a track.
WriteTracks == {<<<<65, 66, 67>>, <<>>, <<88, 89>>>>,
                <<<<>>, <<>>, <<>>>>,
                <<<<65>>, <<49>>, <<50>>>>}

EraseTracks == {<<TRUE, TRUE, TRUE>>, <<TRUE, FALSE, FALSE>>, <<FALSE, TRUE, TRUE>>}

NextProto ==
  \/ Read
  \/ \E tracks \in WriteTracks : Write(tracks)
  \/ \E tracks \in EraseTracks : Erase(tracks)
  \/ Reset
  \/ Hico
  \/ Loco

SpecProto == InitProto /\ [][NextProto]_vars

(***************************************************************************)
(* Claims about the command protocol, under SpecProto.                     *)
(***************************************************************************)
\* The device as the last call found it once its command was sent (the
\* adapter's buffer is empty after a send).
PreDev == [buffer |-> <<>>, usb_in |-> last.pre_usb, ser_in |-> last.pre_ser,
           tx |-> <<>>, usb_out |-> <<>>]

\* What is left to read after the last call.
NowDev == [buffer |-> buffer, usb_in |-> usb_in, ser_in |-> ser_in,
           tx |-> <<>>, usb_out |-> <<>>]

\* The first and the second single byte the device handed to the last call.
FirstRead == dev_read(dev, PreDev, 1)
SecondRead == dev_read(dev, FirstRead.d, 1)

HexChars == <<48, 49, 50, 51, 52, 53, 54, 55, 56, 57, 97, 98, 99, 100, 101, 102>>
HexOfByte(x) == <<HexChars[(x \div 16) + 1], HexChars[(x % 16) + 1]>>
HexOf(bytes) == IF bytes = <<>> THEN <<>> ELSE HexOfByte(bytes[1])

\* C7: status parsing reads an escape byte and then one status byte: '0' ends
\* the call successfully, '1' raises DeviceError read_write, '2' and '4' raise
\* DeviceError command, '9' DeviceError swipe, 'A' DeviceError erase, any other
\* status byte raises ProtocolError naming the byte in hex; a first byte other
\* than ESC raises ProtocolError and the status byte is left unread.
C7_Status ==
  (last.op \in {"erase", "write"}) =>
    IF FirstRead.ret # <<ESC>>
    THEN /\ last.kind = "ProtocolError" /\ last.what = "expected"
         /\ last.a = <<49, 98>> /\ last.b = HexOf(FirstRead.ret)
         /\ NowDev = FirstRead.d
    ELSE LET status == SecondRead.ret
         IN  /\ NowDev = SecondRead.d
             /\ CASE status = <<48>> -> last.kind = "ok"
                  [] status = <<49>> -> last.kind = "DeviceError" /\ last.what = "read_write"
                  [] status = <<50>> -> last.kind = "DeviceError" /\ last.what = "command"
                  [] status = <<52>> -> last.kind = "DeviceError" /\ last.what = "command"
                  [] status = <<57>> -> last.kind = "DeviceError" /\ last.what = "swipe"
                  [] status = <<65>> -> last.kind = "DeviceError" /\ last.what = "erase"
                  [] OTHER -> /\ last.kind = "ProtocolError"
                              /\ last.what = "invalid status"
                              /\ last.a = HexOf(status)

C7_Witness ==
  /\ last.op = "erase" /\ SecondRead.ret = <<52>>
  /\ last.kind = "DeviceError" /\ last.what = "command"

\* The reply the last call found, when the device handed it over byte by byte
\* without a gap: on a serial port, or as one USB message of one packet.
Seamless == dev = "serial" \/ (Len(last.pre_usb) = 1 /\ EndBit(last.pre_usb[1]))
PreReply == IF dev = "serial" THEN last.pre_ser ELSE FirstMessage(last.pre_usb)

FramedTable ==
  {[reply |-> Framed(t, pad, form, STATUS_OK), tracks |-> t] :
     t \in TrackTriples, pad \in Pads, form \in EmptyForms}

C9_Unexpected ==
  (/\ last.op = "read" /\ Seamless
   /\ Len(PreReply) >= 4
   /\ SubSeq(PreReply, 1, 2) = <<ESC, 115>>
   /\ \/ PreReply[3] \notin {ESC, QUESTION}
      \/ PreReply[3] = ESC /\ PreReply[4] > TRACK_CNT)
  => last.kind = "ProtocolError"

\* The block write() is claimed to send for track k: nothing for a preserved
\* track.
ClaimedBlock(k, t) ==
  IF t = <<>> THEN <<>>
  ELSE <<IF RAW THEN <<ESC, k, Len(t)>> \o t ELSE <<ESC, k>> \o t>>

\* C10, as claimed: write(tracks) sends a track block only for each track that
\* is not preserved; for a preserved track (an empty byte string) nothing is
\* sent between the write-mode command and the '?' FS terminator.
C10_SkipsPreserved ==
  (last.op = "write") =>
    tx = <<IF RAW THEN <<ESC, 110, ESC, 115>> ELSE <<ESC, 119, ESC, 115>>>>
           \o ClaimedBlock(1, last.arg[1]) \o ClaimedBlock(2, last.arg[2])
           \o ClaimedBlock(3, last.arg[3]) \o <<<<QUESTION, FS>>>>

\* C10, amended: write(tracks) sends, between the write-mode command and the
\* '?' FS terminator, one block for each of the three tracks in order,
\* preserved or not: ESC, the track number, in raw mode the length byte, and
\* the data; for a preserved track that is ESC and the track number alone (and
\* a zero length byte in raw mode).
C10_BlockPerTrack ==
  (last.op = "write") =>
    /\ Len(tx) = TRACK_CNT + 2
    /\ tx[1] = (IF RAW THEN <<ESC, 110, ESC, 115>> ELSE <<ESC, 119, ESC, 115>>)
    /\ \A k \in 1..TRACK_CNT :
         tx[k + 1] = (IF RAW THEN <<ESC, k, Len(last.arg[k])>> \o last.arg[k]
                      ELSE <<ESC, k>> \o last.arg[k])
    /\ \A k \in 1..TRACK_CNT :
         last.arg[k] = <<>> => tx[k + 1] = (IF RAW THEN <<ESC, k, 0>> ELSE <<ESC, k>>)
    /\ tx[TRACK_CNT + 2] = <<QUESTION, FS>>

C10_Witness ==
  /\ last.op = "write" /\ ~RAW /\ last.kind = "ok"
  /\ last.arg = <<<<65, 66, 67>>, <<>>, <<88, 89>>>>
  /\ tx = <<<<ESC, 119, ESC, 115>>, <<ESC, 1, 65, 66, 67>>, <<ESC, 2>>,
            <<ESC, 3, 88, 89>>, <<QUESTION, FS>>>>

(***************************************************************************)
(* __init__.py: the ISO 7811 codec.  Raw track data is a bit stream, least *)
(* significant bit of the first byte first, cut into groups of `bits` bits *)
(* whose top bit is a parity bit; a character is the group's other bits    *)
(* plus the track's lowest code point.  Characters are their code points.  *)
(***************************************************************************)
MaxChars == 8        \* sample character strings have 1..MaxChars characters
MaxSeeds == 2        \* character patterns per length and track

\* ISO7811._PARAM_MAP: the lowest code point and the group size of a track.
PARAM_MAP ==
  [track \in 1..3 |-> IF track = 1 THEN [low |-> 32, bits |-> 7]
                      ELSE [low |-> 48, bits |-> 5]]

\* The number of one bits of n >= 0.
RECURSIVE PopCount(_)
PopCount(n) == IF n = 0 THEN 0 ELSE (n % 2) + PopCount(n \div 2)

\* _dec, lines 90-91: the parity bit of a group's data bits,
\* ~(((part * 0x0101010101010101) & 0x8040201008040201) % 0x1FF) & 1.  The
\* product lays eight copies of part side by side, the mask keeps bit k of copy
\* k at position 9k, and modulo 2^9 - 1 these add up to the number of one bits
\* of part: the result is 1 when that number is even.
parity_bit(part) == 1 - (PopCount(part) % 2)

\* ISO7811._dec, the loop over data[i..] (lines 88-99): the bytes yielded.
\* x & ((1 << n) - 1) is x % 2^n, for a negative x as well (ord(d) < low).
RECURSIVE dec_loop(_, _, _, _, _, _)
dec_loop(data, i, atbit, whole, low, bits) ==
  IF i > Len(data)
  THEN IF atbit > 0 THEN <<whole>> ELSE <<>>
  ELSE LET part0 == (data[i] - low) % (2 ^ (bits - 1))
           part == BitOr(part0, parity_bit(part0) * (2 ^ (bits - 1)))
           whole1 == BitOr(whole, (part * (2 ^ atbit)) % 256)
           atbit1 == atbit + bits
       IN  IF atbit1 > 7
           THEN <<whole1>>
                  \o dec_loop(data, i + 1, atbit1 % 8,
                              part \div (2 ^ (bits - (atbit1 % 8))), low, bits)
           ELSE dec_loop(data, i + 1, atbit1, whole1, low, bits)

\* ISO7811._dec(data, low, bits): characters to raw bytes.
dec(data, low, bits) == dec_loop(data, 1, 0, 0, low, bits)

\* A mutant of enc_loop: the parity bit is left in the character's value.
RECURSIVE enc_loop_keeps_parity(_, _, _, _, _, _)
enc_loop_keeps_parity(data, i, atbit, whole, low, bits) ==
  LET part0 == (whole \div (2 ^ atbit)) % (2 ^ bits)
      atbit1 == atbit + bits
  IN  IF atbit1 > 7 /\ i + 1 > Len(data)
      THEN <<>>
      ELSE LET whole1 == IF atbit1 > 7 THEN data[i + 1] ELSE whole
               i1 == IF atbit1 > 7 THEN i + 1 ELSE i
               atbit2 == IF atbit1 > 7 THEN atbit1 % 8 ELSE atbit1
               part == IF atbit1 > 7
                       THEN BitOr(part0, (whole1 % (2 ^ atbit2)) * (2 ^ (bits - atbit2)))
                       ELSE part0
           IN  IF part = 0 THEN <<>>
               ELSE <<part + low>>
                      \o enc_loop_keeps_parity(data, i1, atbit2, whole1, low, bits)

\* A mutant of enc_loop: the encoding stops at a group whose data bits are
\* zero, whatever its parity bit.
RECURSIVE enc_loop_stops_on_data(_, _, _, _, _, _)
enc_loop_stops_on_data(data, i, atbit, whole, low, bits) ==
  LET part0 == (whole \div (2 ^ atbit)) % (2 ^ bits)
      atbit1 == atbit + bits
  IN  IF atbit1 > 7 /\ i + 1 > Len(data)
      THEN <<>>
      ELSE LET whole1 == IF atbit1 > 7 THEN data[i + 1] ELSE whole
               i1 == IF atbit1 > 7 THEN i + 1 ELSE i
               atbit2 == IF atbit1 > 7 THEN atbit1 % 8 ELSE atbit1
               part == IF atbit1 > 7
                       THEN BitOr(part0, (whole1 % (2 ^ atbit2)) * (2 ^ (bits - atbit2)))
                       ELSE part0
           IN  IF part % (2 ^ (bits - 1)) = 0 THEN <<>>
               ELSE <<(part % (2 ^ (bits - 1))) + low>>
                      \o enc_loop_stops_on_data(data, i1, atbit2, whole1, low, bits)

\* ISO7811._enc, one turn of `while True` (lines 107-116) and the turns after
\* it: whole is data[i], the byte last taken from the iterator.  next(data)
\* with no byte left raises StopIteration, which ends the generator.
RECURSIVE enc_loop(_, _, _, _, _, _)
enc_loop(data, i, atbit, whole, low, bits) ==
  LET part0 == (whole \div (2 ^ atbit)) % (2 ^ bits)
      atbit1 == atbit + bits
  IN  IF atbit1 > 7 /\ i + 1 > Len(data)
      THEN <<>>
      ELSE LET whole1 == IF atbit1 > 7 THEN data[i + 1] ELSE whole
               i1 == IF atbit1 > 7 THEN i + 1 ELSE i
               atbit2 == IF atbit1 > 7 THEN atbit1 % 8 ELSE atbit1
               part == IF atbit1 > 7
                       THEN BitOr(part0, (whole1 % (2 ^ atbit2)) * (2 ^ (bits - atbit2)))
                       ELSE part0
           IN  IF part = 0 THEN <<>>
               ELSE <<(part % (2 ^ (bits - 1))) + low>>
                      \o enc_loop(data, i1, atbit2, whole1, low, bits)

\* ISO7811._enc(data, low, bits): raw bytes to characters.
enc(data, low, bits) ==
  IF data = <<>> THEN <<>> ELSE enc_loop(data, 1, 0, data[1], low, bits)

\* _DATA_CONV[('raw', 'hex')]: binascii.hexlify(d).decode("utf-8").
raw_hex(d) == [exc |-> "none", val |-> hexlify(d)]

\* _DATA_CONV[('hex', 'raw')]: binascii.hexlify(d).decode("utf-8") once more,
\* on a text string.  Python 3's hexlify takes no text and raises TypeError;
\* Python 2's takes the hex digits as bytes and gives their hex digits.  py is
\* the Python's version, 27 for 2.7.
hex_raw(py, d) ==
  IF py >= 30 THEN [exc |-> "TypeError", val |-> NoVal]
  ELSE [exc |-> "none", val |-> hexlify(d)]

(***************************************************************************)
(* The codec and the conversions on their own: the call and its arguments  *)
(* are drawn at the start, and the action makes the call.                  *)
(***************************************************************************)
\* A string of n characters of a track's alphabet.
CharStr(track, n, seed) ==
  [i \in 1..n |-> PARAM_MAP[track].low
                    + ((5 * seed + 3 * i) % (2 ^ (PARAM_MAP[track].bits - 1)))]

SampleStrs(track) == {CharStr(track, n, seed) : n \in 1..MaxChars, seed \in 1..MaxSeeds}

\* Characters next to the ends of the alphabets, a line feed and a character
\* beyond Latin-1.
EdgeChars == {10, 31, 32, 47, 48, 63, 64, 65, 95, 96, 127, 255, 8364}

\* Texts handed to the decoder: sample strings, every one-character string of
\* 7-bit characters, and an edge character first or last in a short string.
DecData(track) ==
  SampleStrs(track)
  \cup {<<>>}
  \cup {<<c>> : c \in (0..127) \cup EdgeChars}
  \cup {<<c, PARAM_MAP[track].low + 1>> : c \in EdgeChars}
  \cup {<<PARAM_MAP[track].low + 1, c>> : c \in EdgeChars}

EdgeBytes == {0, 1, 16, 31, 32, 64, 128, 255}

\* Raw data handed to the encoder: what decoding the sample strings gives,
\* every one-byte string, and pairs of bytes with few or many one bits.
EncData(track) ==
  {dec(s, PARAM_MAP[track].low, PARAM_MAP[track].bits) : s \in SampleStrs(track)}
  \cup {<<>>}
  \cup {<<b>> : b \in 0..255}
  \cup {<<a, b>> : a \in EdgeBytes, b \in EdgeBytes}

HexData == {<<>>, <<97, 98>>, <<255, 16, 0>>} \cup {<<b>> : b \in 0..255}

CodecNoCall == [op |-> "none", done |-> FALSE, track |-> 1, data |-> <<>>,
                py |-> 39, exc |-> "none", ret |-> NoVal]

CodecCalls ==
  {[CodecNoCall EXCEPT !.op = "enc", !.track = t, !.data = d] :
     t \in 1..3, d \in UNION {EncData(u) : u \in 1..3}}
  \cup {[CodecNoCall EXCEPT !.op = "dec", !.track = t, !.data = d] :
          t \in 1..3, d \in UNION {DecData(u) : u \in 1..3}}
  \cup {[CodecNoCall EXCEPT !.op = "hex", !.py = py, !.data = d] :
          py \in {27, 39}, d \in HexData}

InitCodec ==
  /\ usb_out = <<>>
  /\ usb_in = <<>>
  /\ buffer = <<>>
  /\ last \in CodecCalls
  /\ NoProto

\* ''.join(ISO7811._enc(data, *params)), the track's encoder.
Encode ==
  /\ last.op = "enc" /\ ~last.done
  /\ last' = [last EXCEPT !.done = TRUE,
                !.ret = enc(last.data, PARAM_MAP[last.track].low,
                            PARAM_MAP[last.track].bits)]
  /\ UNCHANGED <<usb_out, usb_in, buffer, protoVars>>

\* b''.join(ISO7811._dec(data, *params)), the track's decoder.
Decode ==
  /\ last.op = "dec" /\ ~last.done
  /\ last' = [last EXCEPT !.done = TRUE,
                !.ret = dec(last.data, PARAM_MAP[last.track].low,
                            PARAM_MAP[last.track].bits)]
  /\ UNCHANGED <<usb_out, usb_in, buffer, protoVars>>

\* Raw data shown as hex and the hex text taken back as raw data:
\* _DATA_CONV[('hex', 'raw')](_DATA_CONV[('raw', 'hex')](d, t), t).
HexRoundTrip ==
  /\ last.op = "hex" /\ ~last.done
  /\ LET r == hex_raw(last.py, raw_hex(last.data).val)
     IN  last' = [last EXCEPT !.done = TRUE, !.exc = r.exc, !.ret = r.val]
  /\ UNCHANGED <<usb_out, usb_in, buffer, protoVars>>

NextCodec == Encode \/ Decode \/ HexRoundTrip

SpecCodec == InitCodec /\ [][NextCodec]_vars


(***************************************************************************)
(* Claims about the codec and the conversions, under SpecCodec.            *)
(***************************************************************************)
Encoded == last.op = "enc" /\ last.done
Decoded == last.op = "dec" /\ last.done

Low == PARAM_MAP[last.track].low
Bits == PARAM_MAP[last.track].bits

\* Bit j (from 0) of raw data, the least significant bit of a byte first.
BitAt(b, j) == (b[(j \div 8) + 1] \div (2 ^ (j % 8))) % 2

\* The value of the n bits of raw data from bit `start` on.
RECURSIVE BitsFrom(_, _, _)
BitsFrom(b, start, n) ==
  IF n = 0 THEN 0 ELSE BitAt(b, start) + 2 * BitsFrom(b, start + 1, n - 1)

\* Bit-group g (from 1) of raw data, and a group's bits without the parity bit.
Group(b, g, bits) == BitsFrom(b, (g - 1) * bits, bits)
DataBits(group, bits) == group % (2 ^ (bits - 1))

\* The groups that lie wholly in the data, and those among them that end
\* before the data's last bit.
WholeGroups(b, bits) == (8 * Len(b)) \div bits
ReadGroups(b, bits) == IF b = <<>> THEN 0 ELSE (8 * Len(b) - 1) \div bits

\* Raw data as a card carries it: every whole group has odd parity (so none is
\* zero) and the bits after the last whole group are zero.
WellFormed(b, bits) ==
  /\ \A g \in 1..WholeGroups(b, bits) : PopCount(Group(b, g, bits)) % 2 = 1
  /\ \A j \in (WholeGroups(b, bits) * bits)..(8 * Len(b) - 1) : BitAt(b, j) = 0

\* C11: decoding the encoding of raw data b with the same track's parameters
\* returns b, whenever the encoded output is not empty and no group of b is the
\* zero group.  Stated for the data a card carries, whose groups all have odd
\* parity: the encoder drops the parity bits and the decoder computes them.
C11_RoundTrip ==
  (Encoded /\ last.ret # <<>> /\ WellFormed(last.data, Bits)) =>
    dec(last.ret, Low, Bits) = last.data

\* C12: every character the encoder produces has a code point from the track's
\* lowest code point up to that plus 2^(bits-1) - 1, that is 0x20..0x5F on
\* track 1 and 0x30..0x3F on tracks 2 and 3: it is the lowest code point plus
\* the group's bits without the parity bit.
C12_AlphabetBound ==
  Encoded =>
    \A j \in 1..Len(last.ret) :
      /\ last.ret[j] >= Low
      /\ last.ret[j] <= Low + 2 ^ (Bits - 1) - 1
      /\ last.ret[j] \in (IF last.track = 1 THEN 32..95 ELSE 48..63)
      /\ last.ret[j] = Low + DataBits(Group(last.data, j, Bits), Bits)

C12_Witness ==
  /\ Encoded /\ last.track = 2 /\ last.data = <<255>> /\ last.ret = <<63>>
  /\ Group(last.data, 1, Bits) = 31

\* C14: raw data shown as hex and the hex read back as raw data is the data
\* again: the (hex, raw) transform undoes the (raw, hex) transform.
C14_HexRoundTrip ==
  (last.op = "hex" /\ last.done) => (last.exc = "none" /\ last.ret = last.data)

C18_RejectsOutOfRange ==
  Decoded =>
    ((\E j \in 1..Len(last.data) :
        last.data[j] < Low \/ last.data[j] > Low + 2 ^ (Bits - 1) - 1)
     <=> last.exc # "none")


(***************************************************************************)
(* __init__.py: the command line's write, main() with _do_write.  Text is  *)
(* a sequence of code points.                                              *)
(***************************************************************************)
DELIM == 124

\* The Python that runs the program: binascii.hexlify takes a text string on
\* Python 2 only, and codecs.lookup hands the name 'iso7811-t<n>' to the search
\* function unchanged up to Python 3.8 (from 3.9 on hyphens become
\* underscores and ISO7811.codec_search does not know the name).
PythonVersions == {27, 38, 39}

\* data.split(_DELIM): the pieces of s from position i on, cur being the piece
\* collected so far.
RECURSIVE split_from(_, _, _)
split_from(s, i, cur) ==
  IF i > Len(s) THEN <<cur>>
  ELSE IF s[i] = DELIM THEN <<cur>> \o split_from(s, i + 1, <<>>)
  ELSE split_from(s, i + 1, Append(cur, s[i]))

split(s) == split_from(s, 1, <<>>)

\* re.search('^[class]*$', d): every character is of the class; `$` also
\* matches before a line feed that ends the text.
matches(d, class) ==
  \/ \A j \in 1..Len(d) : d[j] \in class
  \/ /\ d # <<>> /\ d[Len(d)] = 10
     /\ \A j \in 1..(Len(d) - 1) : d[j] \in class

HexClass == (48..57) \cup (97..102) \cup (65..70)

\* _DTYPE_VFY[type](d, t)
DTYPE_VFY(type, d, t) ==
  CASE type = "ascii" -> matches(d, 0..127)
    [] type = "hex" -> matches(d, HexClass)
    [] type = "iso" -> matches(d, IF t = 1 THEN 32..95 ELSE 48..63)

\* d.encode("utf-8")
RECURSIVE utf8(_)
utf8(d) ==
  IF d = <<>> THEN <<>>
  ELSE (IF d[1] < 128 THEN <<d[1]>>
        ELSE IF d[1] < 2048 THEN <<192 + (d[1] \div 64), 128 + (d[1] % 64)>>
        ELSE <<224 + (d[1] \div 4096), 128 + ((d[1] \div 64) % 64), 128 + (d[1] % 64)>>)
       \o utf8(Tail(d))

\* _DATA_CONV[type, fmt](d, t) as _do_write uses it: a pair that is no key of
\* _DATA_CONV raises KeyError.
DATA_CONV(py, type, fmt, d, t) ==
  CASE type = "ascii" /\ fmt = "raw_ascii" -> [exc |-> "none", val |-> utf8(d)]
    [] type = "hex" /\ fmt = "raw" -> hex_raw(py, d)
    [] type = "iso" /\ fmt = "raw" ->
         IF py >= 39 THEN [exc |-> "LookupError", val |-> NoVal]
         ELSE [exc |-> "none", val |-> dec(d, PARAM_MAP[t].low, PARAM_MAP[t].bits)]
    [] OTHER -> [exc |-> "KeyError", val |-> NoVal]

\* _do_write, lines 322-325: the three conversions, c1, c2 and c3 being their
\* outcomes in track order; the first exception ends the list.
converted(c1, c2, c3) ==
  IF c1.exc # "none" THEN [exc |-> c1.exc, val |-> NoTracks]
  ELSE IF c2.exc # "none" THEN [exc |-> c2.exc, val |-> NoTracks]
  ELSE IF c3.exc # "none" THEN [exc |-> c3.exc, val |-> NoTracks]
  ELSE [exc |-> "none", val |-> <<c1.val, c2.val, c3.val>>]

\* _do_write, line 326: c is how the conversions ended.
do_write_converted(k, d, raw, c) ==
  IF c.exc # "none" THEN Res(c.exc, "", <<>>, <<>>, NoTracks, d)
  ELSE write(k, d, raw, c.val)

\* _do_write(args), from line 308 on: data is the text split at the delimiters.
\* parser.error prints the message and raises SystemExit.
do_write_split(k, d, raw, py, type, data) ==
  IF Len(data) # TRACK_CNT
  THEN Res("SystemExit", "delimiters", <<>>, <<>>, NoTracks, d)
  ELSE IF ~ \A t \in 1..TRACK_CNT : DTYPE_VFY(type, data[t], t)
  THEN Res("SystemExit", "type", <<>>, <<>>, NoTracks, d)
  ELSE LET fmt == IF raw THEN "raw" ELSE "raw_ascii"
       IN  do_write_converted(k, d, raw,
             converted(DATA_CONV(py, type, fmt, data[1], 1),
                       DATA_CONV(py, type, fmt, data[2], 2),
                       DATA_CONV(py, type, fmt, data[3], 3)))

\* _do_write(args)
do_write(k, d, raw, py, type, text) == do_write_split(k, d, raw, py, type, split(text))

\* main(), lines 458-462: the device after reset() and hico().
main_started(k, d, no_reset, hico) ==
  LET d1 == IF no_reset THEN d ELSE send(k, d, <<ESC, 97>>)
  IN  IF hico THEN send(k, d1, <<ESC, 120>>) ELSE d1

\* main(), lines 467-468: r is how args.func(args) ended; loco() follows a
\* call that returned.
main_ended(k, hico, r) ==
  IF r.kind = "ok" /\ hico THEN [r EXCEPT !.d = send(k, r.d, <<ESC, 121>>)] ELSE r

\* main() for the write command.
main(k, d, raw, py, args) ==
  main_ended(k, args.hico,
    do_write(k, main_started(k, d, args.no_reset, args.hico), raw, py,
             args.type, args.data))

(***************************************************************************)
(* Runs of the command line: the arguments, the Python and the device's    *)
(* reply are drawn at the start, and the action runs main().               *)
(***************************************************************************)
\* "A|B|C", "A|B", "A|B|C|D", "", "6162|63|", "6g|63|64", "AB|12|34",
\* "AB|1A|34", "e-acute||", "12|34|56" with a line feed, "|12|1:".
CliData ==
  {<<65, 124, 66, 124, 67>>, <<65, 124, 66>>, <<65, 124, 66, 124, 67, 124, 68>>,
   <<>>, <<54, 49, 54, 50, 124, 54, 51, 124>>,
   <<54, 103, 124, 54, 51, 124, 54, 52>>,
   <<65, 66, 124, 49, 50, 124, 51, 52>>, <<65, 66, 124, 49, 65, 124, 51, 52>>,
   <<233, 124, 124>>, <<49, 50, 124, 51, 52, 124, 53, 54, 10>>,
   <<124, 49, 50, 124, 49, 58>>}

CliTypes == {"ascii", "hex", "iso"}

CliArgs == [no_reset : BOOLEAN, hico : BOOLEAN, type : CliTypes, data : CliData]

\* The device's reply to a write: success, a write error, or no escape byte.
CliReplies == {<<ESC, STATUS_OK>>, <<ESC, 49>>, <<STATUS_OK>>}

CliNoCall == [op |-> "none", done |-> FALSE, py |-> 39,
              args |-> [no_reset |-> FALSE, hico |-> FALSE, type |-> "ascii",
                        data |-> <<>>],
              kind |-> "ok", what |-> ""]

InitCli ==
  /\ dev \in {"serial", "usb"}
  /\ RAW \in BOOLEAN
  /\ \E reply \in CliReplies :
       IF dev = "serial"
       THEN ser_in = reply /\ usb_in = <<>>
       ELSE ser_in = <<>> /\ usb_in = device_packets(reply, 0)
  /\ buffer = <<>>
  /\ usb_out = <<>>
  /\ tx = <<>>
  /\ last \in {[CliNoCall EXCEPT !.op = "main", !.py = py, !.args = args] :
                 py \in PythonVersions, args \in CliArgs}

\* main() run for `msrx write`: r is how it ended.
MainEnded(r) ==
  /\ last.op = "main" /\ ~last.done
  /\ r.kind # "blocked"
  /\ buffer' = r.d.buffer
  /\ usb_in' = r.d.usb_in
  /\ ser_in' = r.d.ser_in
  /\ tx' = r.d.tx
  /\ usb_out' = r.d.usb_out
  /\ last' = [last EXCEPT !.done = TRUE, !.kind = r.kind, !.what = r.what]
  /\ UNCHANGED <<dev, RAW>>

Main == MainEnded(main(dev, DevState, RAW, last.py, last.args))

NextCli == Main

SpecCli == InitCli /\ [][NextCli]_vars

(***************************************************************************)
(* Claims about the command line, under SpecCli.                           *)
(***************************************************************************)
MainDone == last.op = "main" /\ last.done

\* The character class of a declared format on track t.
FormatClass(type, t) ==
  CASE type = "ascii" -> 0..127
    [] type = "hex" -> HexClass
    [] type = "iso" -> IF t = 1 THEN 32..95 ELSE 48..63

\* A write request that must be rejected: its data do not have exactly two
\* delimiters, or a track has a character that is not of the format's class.
Malformed(args) ==
  LET data == split(args.data)
  IN  \/ Len(data) # TRACK_CNT
      \/ \E t \in 1..TRACK_CNT : \E j \in 1..Len(data[t]) :
           data[t][j] \notin FormatClass(args.type, t)

\* C13: a malformed write request is rejected before any device I/O: main()
\* ends with the parser's error and no byte, reset and coercivity commands
\* included, has been sent to the device.
C13_RejectedBeforeIO ==
  (MainDone /\ Malformed(last.args)) =>
    (last.kind = "SystemExit" /\ tx = <<>> /\ usb_out = <<>>)


(***************************************************************************)
(* Replies that reach the USB adapter in pieces: the device sends an empty *)
(* message somewhere in its reply, or cuts the reply into two messages, so *)
(* that a read of the adapter returns no byte or fewer bytes than asked.   *)
(***************************************************************************)
ShortReplies ==
  {Framed(<<<<65, 66, 67>>, <<>>, <<88, 89>>>>, "iso", "escape", STATUS_OK),
   <<ESC, STATUS_OK>>, <<ESC, 49>>}

\* The packets of a message, none for no bytes.
PacketsOf(bytes) == IF bytes = <<>> THEN <<>> ELSE device_packets(bytes, 0)

ShortDeliveries(reply) ==
  {PacketsOf(SubSeq(reply, 1, p)) \o device_packets(<<>>, 0)
     \o PacketsOf(SubSeq(reply, p + 1, Len(reply))) : p \in 0..Len(reply)}
  \cup {PacketsOf(SubSeq(reply, 1, p)) \o PacketsOf(SubSeq(reply, p + 1, Len(reply))) :
          p \in 1..Len(reply)}

InitShort ==
  /\ dev = "usb"
  /\ RAW \in BOOLEAN
  /\ ser_in = <<>>
  /\ \E reply \in ShortReplies : usb_in \in ShortDeliveries(reply)
  /\ buffer = <<>>
  /\ usb_out = <<>>
  /\ tx = <<>>
  /\ last = ProtoNoCall

SpecShort == InitShort /\ [][NextProto]_vars

(***************************************************************************)
(* Claims about short reads, under SpecShort.                              *)
(***************************************************************************)
\* The packets the last call took from the endpoint, one message each.
TakenPackets == SubSeq(last.pre_usb, 1, Len(last.pre_usb) - Len(usb_in))

\* C16: when the transport delivers no byte where read(), write() or erase()
\* still expects bytes of the reply (the call received a message with an empty
\* payload), the call ends by raising ProtocolError: it returns no tracks and
\* raises no other error.
C16_ShortRead ==
  (/\ last.op \in {"read", "write", "erase"}
   /\ \E i \in 1..Len(TakenPackets) : PayloadLength(TakenPackets[i]) = 0)
  => last.kind = "ProtocolError"


(***************************************************************************)
(* Claims about the bytes read() takes from a reply, under SpecProto.      *)
(***************************************************************************)
\* The payloads of packets that are one message each, in order.
RECURSIVE Payloads(_)
Payloads(ps) ==
  IF ps = <<>> THEN <<>>
  ELSE Slice(Head(ps), 1, 1 + PayloadLength(Head(ps))) \o Payloads(Tail(ps))

\* The whole reply the last call found, and the bytes of it the call has read:
\* what the device handed over less what is still waiting (on the serial port,
\* or in the adapter's buffer).
WholeReply == IF dev = "serial" THEN last.pre_ser ELSE Payloads(last.pre_usb)

Consumed ==
  IF dev = "serial"
  THEN SubSeq(last.pre_ser, 1, Len(last.pre_ser) - Len(ser_in))
  ELSE SubSeq(Payloads(TakenPackets), 1, Len(Payloads(TakenPackets)) - Len(buffer))

EndOfReply == <<QUESTION, FS, ESC, STATUS_OK>>

Contains(s, sub) ==
  \E i \in 0..(Len(s) - Len(sub)) : SubSeq(s, i + 1, i + Len(sub)) = sub

\* C19: read() returns tracks only after it has read, in this order, '?', FS,
\* ESC and the status '0', which are the last bytes it reads; every other
\* read() that ends, ends with an error, so that no tracks are returned for a
\* reply in which '?' FS ESC '0' is missing.
C19_ReturnsAfterTerminator ==
  (last.op = "read") =>
    /\ last.kind \in {"ok", "ProtocolError", "DeviceError", "TypeError"}
    /\ last.kind = "ok" =>
         /\ Len(Consumed) >= 6
         /\ SubSeq(Consumed, 1, 2) = <<ESC, 115>>
         /\ SubSeq(Consumed, Len(Consumed) - 3, Len(Consumed)) = EndOfReply
    /\ ~Contains(WholeReply, EndOfReply) => last.kind # "ok"

C19_Witness ==
  /\ last.op = "read" /\ last.kind = "ok" /\ dev = "serial"
  /\ last.pre_ser = Framed(<<<<88, 89>>, <<65, 66, 67>>, <<>>>>, "none", "terminator",
                           STATUS_OK)
  /\ last.tracks = <<<<88, 89>>, <<65, 66, 67>>, <<>>>>
  /\ Consumed = last.pre_ser

\* The reply has ESC and then n somewhere.
HasSelector(reply, n) ==
  \E i \in 1..(Len(reply) - 1) : reply[i] = ESC /\ reply[i + 1] = n

\* C20: the byte after a track-start escape selects a track by its 1-based
\* index: only 1, 2 and 3 select a track and the data that follow go to that
\* track's buffer and to no other, so a track whose number follows no escape
\* in the reply is returned empty; the byte 0 selects no track and changes no
\* track's buffer.
C20_TrackIndex ==
  (last.op = "read" /\ Seamless /\ last.kind = "ok") =>
    /\ \A n \in 1..TRACK_CNT :
         ~HasSelector(PreReply, n) => last.tracks[n] = <<>>
    /\ (\A n \in 1..TRACK_CNT : ~HasSelector(PreReply, n)) => last.tracks = NoTracks


(***************************************************************************)
(* The command protocol's send over the USB adapter, among the adapter's   *)
(* own calls: MSRX._send(d) is _dev.write(d) and then _dev.flush().        *)
(***************************************************************************)
\* MSRX._send(d) on the adapter: s is the device after it.
UsbSent(d, s) ==
  /\ usb_out' = s.usb_out
  /\ buffer' = s.buffer
  /\ usb_in' = s.usb_in
  /\ last' = [UsbNoCall EXCEPT !.op = "send", !.msg = d,
                !.pre_buffer = buffer, !.pre_in = usb_in]
  /\ UNCHANGED protoVars

UsbSend(d) == UsbSent(d, send(dev, DevState, d))

NextSend ==
  \/ \E count \in 0..MaxCount : UsbRead(count)
  \/ \E d \in UsbCommands : UsbWrite(d)
  \/ UsbFlush
  \/ \E timeout \in UsbTimeouts : UsbRecvMessage(timeout)
  \/ \E d \in UsbCommands : UsbSend(d)

SpecSend == InitUsb /\ [][NextSend]_vars

(***************************************************************************)
(* Claims about send and the adapter's buffer, under SpecSend.             *)
(***************************************************************************)
PayloadOf(packet) == Slice(packet, 1, 1 + PayloadLength(packet))

\* What a call that took the first n of the endpoint's packets can have
\* received: nothing, or the payload of one of these packets.
ReceivedFrom(ps, n) == {<<>>} \cup {PayloadOf(ps[i]) : i \in 1..n}

\* C21: over the USB adapter a send (write, then flush) leaves the adapter's
\* receive buffer empty and takes no packet from the endpoint, so the bytes
\* buffered before it are discarded: the read after a send returns and keeps
\* only bytes of packets it receives itself.  Reads alone never drop,
\* duplicate or reorder buffered bytes: what a read returns, followed by what
\* it leaves buffered, is what was buffered before, followed by what it
\* received; a read that raises leaves the buffer as it was.
C21_SendEmptiesBuffer ==
  [][/\ last'.op = "send" =>
          /\ buffer' = <<>>
          /\ usb_in' = usb_in
          /\ usb_out' = encapsulate_message(last'.msg)
     /\ (last'.op = "read" /\ last'.exc = "none") =>
          \E received \in ReceivedFrom(usb_in, Len(usb_in) - Len(usb_in')) :
            /\ last'.ret \o buffer' = buffer \o received
            /\ usb_in' = usb_in => received = <<>>
     /\ (last'.op = "read" /\ last'.exc # "none") => buffer' = buffer
     /\ (last.op = "send" /\ last'.op = "read" /\ last'.exc = "none") =>
          last'.ret \o buffer' \in ReceivedFrom(usb_in, Len(usb_in) - Len(usb_in'))
    ]_vars

\* A send that found bytes buffered, with packets still to come for later reads.
C21_Witness ==
  /\ last.op = "send" /\ last.pre_buffer # <<>> /\ buffer = <<>>
  /\ usb_in = last.pre_in /\ usb_in # <<>>

=============================================================================
